---- MODULE Spec2Model ----
(***************************************************************************)
(* A model of vfm.py: the VFM chain (a variational factorization machine   *)
(* written against chainer v1), its constructor, its cached diagonal mask  *)
(* and its forward pass.                                                   *)
(*                                                                         *)
(* Tensors are sequences (of sequences ...), indexed from 1; a feature id  *)
(* f of the source is row f + 1 of an embedding matrix.                    *)
(*                                                                         *)
(* Numbers.  The program computes in float32.  The model computes with     *)
(* integers and exact fractions, and draws every log-variance from the     *)
(* values on which float32 exp is exact: exp(0) = 1, and exp(x) = 0 for    *)
(* x <= ExpUnderflow (the result is below half the smallest subnormal).    *)
(* Means, feature values, targets and the standard-normal noise that       *)
(* F.gaussian draws are small integers.                                    *)
(*                                                                         *)
(* Shapes.  chainer v1 type-checks a Variable-Variable + and * by shape    *)
(* equality; a Variable times a numpy array (the mask) follows numpy       *)
(* broadcasting.                                                           *)
(***************************************************************************)
EXTENDS Integers, Sequences, FiniteSets, TLC

\* ---------------------------------------------------------------- bounds
MaxFeatures == 2      \* largest n_features a constructor call passes
MaxDim == 1           \* largest n_dim a constructor call passes
MaxBS == 2            \* largest batch size of a call
MaxNF == 3            \* largest n_feat_max (slots per row) of a call

\* float32: exp(x) rounds to 0 for every x <= -104
ExpUnderflow == -104
\* a log-variance whose exp and whose exp(0.5 * .) are both 0 in float32
LvTiny == 2 * ExpUnderflow
\* total_nobs of a large data set
BigNobs == 1000

VARIABLES
    instance,         \* "ok": __init__ returned; "error": __init__ raised
    n_dim, n_features, lambda0, lambda1, lambda2, intx_term, total_nobs,
    bias_mu, bias_lv,                 \* L.Bias(shape=(1,)).b
    slope_mu, slope_lv,               \* L.EmbedID(n_features, 1).W
    prior_slope_mu, prior_slope_lv,   \* L.Bias(shape=(1, 1, 1)).b
    latent_mu, latent_lv,             \* L.EmbedID(n_features, n_dim).W
    prior_latent_mu, prior_latent_lv, \* L.Bias(shape=(1, 1, n_dim)).b
    _mask,            \* the mask cache: None or the cached tensor
    last,             \* what the most recent call was given and returned
    reg               \* the regularization figures of the latest forward call

config == <<n_dim, n_features, lambda0, lambda1, lambda2, intx_term, total_nobs>>
params == <<bias_mu, bias_lv, slope_mu, slope_lv, prior_slope_mu,
            prior_slope_lv, latent_mu, latent_lv, prior_latent_mu,
            prior_latent_lv>>
vars == <<instance, config, params, _mask, last, reg>>

\* ------------------------------------------------------------- fractions
RECURSIVE Gcd(_, _)
Gcd(a, b) == IF b = 0 THEN a ELSE Gcd(b, a % b)
Abs(a) == IF a < 0 THEN -a ELSE a
\* n / d with d > 0, in lowest terms
Frac(n, d) ==
    LET g == Gcd(Abs(n), d)
    IN  [num |-> n \div g, den |-> d \div g]
FAdd(p, q) == Frac(p.num * q.den + q.num * p.den, p.den * q.den)
FMul(p, q) == Frac(p.num * q.num, p.den * q.den)
FLess(p, q) == p.num * q.den < q.num * p.den

\* --------------------------------------------------------------- tensors
RECURSIVE SumSeq(_)
SumSeq(s) == IF s = <<>> THEN 0 ELSE Head(s) + SumSeq(Tail(s))
\* the shape of a 1- or 2-dimensional tensor with no empty leading axis
Shape1(t) == <<Len(t)>>
Shape2(t) == <<Len(t), Len(t[1])>>

\* float32 exp on the values the model uses
Exp(x) == CASE x = 0 -> 1 [] x <= ExpUnderflow -> 0
\* exp(0.5 * lv), the standard deviation F.gaussian scales its noise by
ExpHalf(lv) == CASE lv = 0 -> 1 [] lv <= LvTiny -> 0
\* F.gaussian at one element: mu + exp(0.5 * ln_var) * eps, eps ~ N(0, 1)
gaussian(mu, lv, eps) == mu + ExpHalf(lv) * eps
\* one element's term of F.gaussian_kl_divergence, doubled (the 0.5 is
\* applied once to the sum)
KlTerm2(mu, lv) == Exp(lv) + mu * mu - 1 - lv
\* F.gaussian_kl_divergence(mean, ln_var) over a flat list of (mu, lv) pairs
gaussian_kl_divergence(mus, lvs) ==
    Frac(SumSeq([k \in 1..Len(mus) |-> KlTerm2(mus[k], lvs[k])]), 2)
\* a matrix, row after row
RECURSIVE Flatten(_)
Flatten(m) == IF m = <<>> THEN <<>> ELSE Head(m) \o Flatten(Tail(m))

\* ------------------------------------------------------------ the mask
None == [none |-> TRUE, data |-> <<>>]
Tensor(t) == [none |-> FALSE, data |-> t]

\* xp.ones((nf, nf)) - xp.eye(nf)
OnesMinusEye(nf) == [i \in 1..nf |-> [j \in 1..nf |-> IF i = j THEN 0 ELSE 1]]
\* xp.tile(mask, (bs, 1, 1))
Tile(m, bs) == [r \in 1..bs |-> m]
\* (mutant) the test of line 52 without its comparison of batch sizes
MaskMissOnlyWhenEmpty(cache, bs) == cache.none
\* the test of line 52: the cache is empty or holds another batch size
MaskMiss(cache, bs) == cache.none \/ Len(cache.data) # bs
\* the cache after mask(bs, nf); mask returns this same tensor
MaskAfter(cache, bs, nf) ==
    IF MaskMiss(cache, bs) THEN Tensor(Tile(OnesMinusEye(nf), bs)) ELSE cache

\* ------------------------------------------------------- the constructor
\* np.random.randn(n, m) / c: some n x m matrix of small means
RandnMu(seed, n, m) == [f \in 1..n |-> [d \in 1..m |-> (seed + f + d) % 2]]
\* np.random.randn(n, m) / c - 2.: some n x m matrix of log-variances
RandnLv(n, m) ==
    [f \in 1..n |-> [d \in 1..m |-> IF (f + d) % 2 = 0 THEN 0 ELSE LvTiny]]
\* a freshly built link holds zeros: L.Bias fills b with 0
Zeros(n) == [d \in 1..n |-> 0]

\* the arguments of a constructor call (lossfun is never read)
Args(nf, nd, lam, ix, nobs, seed) ==
    [n_features |-> nf, n_dim |-> nd, lam |-> lam, intx_term |-> ix,
     total_nobs |-> nobs, init_bias_mu |-> 1, init_bias_lv |-> 0,
     seed |-> seed]

\* the links of lines 27-36 cannot be allocated: numpy refuses a negative
\* dimension, and nothing in __init__ refuses any other argument
CtorRaises(c) == c.n_features < 0 \/ c.n_dim < 0

\* the object __init__ leaves behind: lines 16-23 have run when the links
\* of lines 27-36 raise, and lines 40-49 run only when they do not
Constructed(c) ==
    LET ok == ~CtorRaises(c)
    IN  [instance |-> IF ok THEN "ok" ELSE "error",
         n_dim |-> c.n_dim, n_features |-> c.n_features,
         lambda0 |-> c.lam[1], lambda1 |-> c.lam[2], lambda2 |-> c.lam[3],
         intx_term |-> c.intx_term, total_nobs |-> c.total_nobs,
         bias_mu |-> IF ok THEN <<0 * 0 + c.init_bias_mu>> ELSE <<>>,
         bias_lv |-> IF ok THEN <<0 * 0 + c.init_bias_lv>> ELSE <<>>,
         slope_mu |-> IF ok THEN RandnMu(c.seed, c.n_features, 1) ELSE <<>>,
         slope_lv |-> IF ok THEN RandnLv(c.n_features, 1) ELSE <<>>,
         prior_slope_mu |-> IF ok THEN << <<Zeros(1)>> >> ELSE <<>>,
         prior_slope_lv |-> IF ok THEN << <<Zeros(1)>> >> ELSE <<>>,
         latent_mu |-> IF ok THEN RandnMu(c.seed, c.n_features, c.n_dim)
                       ELSE <<>>,
         latent_lv |-> IF ok THEN RandnLv(c.n_features, c.n_dim) ELSE <<>>,
         prior_latent_mu |-> IF ok THEN << <<Zeros(c.n_dim)>> >> ELSE <<>>,
         prior_latent_lv |-> IF ok THEN << <<Zeros(c.n_dim)>> >> ELSE <<>>]

NoReg == [valid |-> FALSE]

InitFrom(S) ==
    \E c \in S :
        LET o == Constructed(c)
        IN  /\ instance = o.instance
            /\ n_dim = o.n_dim
            /\ n_features = o.n_features
            /\ lambda0 = o.lambda0
            /\ lambda1 = o.lambda1
            /\ lambda2 = o.lambda2
            /\ intx_term = o.intx_term
            /\ total_nobs = o.total_nobs
            /\ bias_mu = o.bias_mu
            /\ bias_lv = o.bias_lv
            /\ slope_mu = o.slope_mu
            /\ slope_lv = o.slope_lv
            /\ prior_slope_mu = o.prior_slope_mu
            /\ prior_slope_lv = o.prior_slope_lv
            /\ latent_mu = o.latent_mu
            /\ latent_lv = o.latent_lv
            /\ prior_latent_mu = o.prior_latent_mu
            /\ prior_latent_lv = o.prior_latent_lv
            /\ _mask = None
            /\ last = [op |-> "construct", args |-> c]
            /\ reg = [cur |-> NoReg, prev |-> NoReg]

\* VFM(...): a new instance takes the place of the old one; _mask is the
\* class attribute again, and what was reported before stays reported
ConstructFrom(S) ==
    \E c \in S :
        LET o == Constructed(c)
        IN  /\ instance' = o.instance
            /\ n_dim' = o.n_dim
            /\ n_features' = o.n_features
            /\ lambda0' = o.lambda0
            /\ lambda1' = o.lambda1
            /\ lambda2' = o.lambda2
            /\ intx_term' = o.intx_term
            /\ total_nobs' = o.total_nobs
            /\ bias_mu' = o.bias_mu
            /\ bias_lv' = o.bias_lv
            /\ slope_mu' = o.slope_mu
            /\ slope_lv' = o.slope_lv
            /\ prior_slope_mu' = o.prior_slope_mu
            /\ prior_slope_lv' = o.prior_slope_lv
            /\ latent_mu' = o.latent_mu
            /\ latent_lv' = o.latent_lv
            /\ prior_latent_mu' = o.prior_latent_mu
            /\ prior_latent_lv' = o.prior_latent_lv
            /\ _mask' = None
            /\ last' = [op |-> "construct", args |-> c]
            /\ UNCHANGED reg

\* ------------------------------------------------------------- mask calls
\* model.mask(bs, nf), called directly
mask ==
    \E bs \in 1..MaxBS, nf \in 1..MaxNF :
        /\ instance = "ok"
        /\ _mask' = MaskAfter(_mask, bs, nf)
        /\ last' = [op |-> "mask", bs |-> bs, nf |-> nf, before |-> _mask,
                    built |-> MaskMiss(_mask, bs),
                    ret |-> MaskAfter(_mask, bs, nf)]
        /\ UNCHANGED <<instance, config, params, reg>>

\* ---------------------------------------------------------------- forward
\* The arguments of a call are a record a: val, loc, y, is_test, lv_floor,
\* and the noise F.gaussian draws for the bias (eps_b), the slope
\* coefficients (eps_c) and the latent vectors (eps_v).
BS(a) == Len(a.val)          \* bs = val.data.shape[0]
NF(a) == Len(a.val[1])       \* nf = val.data.shape[1]

\* lines 89-93: the bias, one sample per row of y
bs_mu(a) == [r \in 1..Len(a.y) |-> bias_mu[1]]
bs_lv(a) == [r \in 1..Len(a.y) |-> bias_lv[1] + a.is_test[r] * a.lv_floor]
bias(a) == [r \in 1..Len(a.y) |-> gaussian(bs_mu(a)[r], bs_lv(a)[r], a.eps_b[r])]

\* lines 98-106: the slope of every slot, and the linear term of every row
sl_mu(a) ==
    [r \in 1..BS(a) |-> [i \in 1..NF(a) |->
        slope_mu[a.loc[r][i] + 1][1] + prior_slope_mu[1][1][1]]]
sl_lv(a) ==
    [r \in 1..BS(a) |-> [i \in 1..NF(a) |->
        slope_lv[a.loc[r][i] + 1][1] + prior_slope_lv[1][1][1]]]
\* (mutant) line 103 without the test flags: no floor under the slopes
sl_lvc_unfloored(a) == [r \in 1..BS(a) |-> [i \in 1..NF(a) |-> 0]]
sl_lvc(a) == [r \in 1..BS(a) |-> [i \in 1..NF(a) |-> a.is_test[r] * a.lv_floor]]
coef(a) ==
    [r \in 1..BS(a) |-> [i \in 1..NF(a) |->
        gaussian(sl_mu(a)[r][i], sl_lv(a)[r][i] + sl_lvc(a)[r][i], a.eps_c[r][i])]]
slop(a) ==
    [r \in 1..BS(a) |->
        SumSeq([i \in 1..NF(a) |-> coef(a)[r][i] * a.val[r][i]])]

\* lines 111-118: the latent vector of every slot
vi_mu(a) ==
    [r \in 1..BS(a) |-> [i \in 1..NF(a) |-> [d \in 1..n_dim |->
        latent_mu[a.loc[r][i] + 1][d] + prior_latent_mu[1][1][d]]]]
vi_lv(a) ==
    [r \in 1..BS(a) |-> [i \in 1..NF(a) |-> [d \in 1..n_dim |->
        latent_lv[a.loc[r][i] + 1][d] + prior_latent_lv[1][1][d]]]]
vi_lvc(a) ==
    [r \in 1..BS(a) |-> [i \in 1..NF(a) |-> [d \in 1..n_dim |->
        a.is_test[r] * a.lv_floor]]]
vi(a) ==
    [r \in 1..BS(a) |-> [i \in 1..NF(a) |-> [d \in 1..n_dim |->
        gaussian(vi_mu(a)[r][i][d], vi_lv(a)[r][i][d] + vi_lvc(a)[r][i][d],
                 a.eps_v[r][i][d])]]]

\* lines 121-124: F.batch_matmul(v, v, transb=True) of the sampled latent
\* vectors v, and of val taken as (bs, nf, 1)
vij(v) ==
    [r \in 1..Len(v) |-> [i \in 1..Len(v[r]) |-> [j \in 1..Len(v[r]) |->
        SumSeq([d \in 1..Len(v[r][i]) |-> v[r][i][d] * v[r][j][d]])]]]
xij(val) ==
    [r \in 1..Len(val) |-> [i \in 1..Len(val[r]) |-> [j \in 1..Len(val[r]) |->
        val[r][i] * val[r][j]]]]

\* numpy broadcasting of two axes of lengths n and k
Broadcasts(n, k) == n = k \/ n = 1 \/ k = 1
BLen(n, k) == IF n = 1 THEN k ELSE n
\* the index into an axis of length n that broadcast index i reads
BIdx(n, i) == IF n = 1 THEN 1 ELSE i

\* line 129: F.sum(vij * xij * mask, axis=(1, 2)); the product with the
\* numpy array m broadcasts the last two axes (the first is bs on both sides)
intx(v, val, m) ==
    LET nf == Len(val[1])
        mf == Len(m[1])
        K == BLen(nf, mf)
        p == [r \in 1..Len(val) |-> [i \in 1..nf |-> [j \in 1..nf |->
                  vij(v)[r][i][j] * xij(val)[r][i][j]]]]
    IN  [r \in 1..Len(val) |->
            SumSeq(Flatten([i \in 1..K |-> [j \in 1..K |->
                p[r][BIdx(nf, i)][BIdx(nf, j)]
                    * m[r][BIdx(mf, i)][BIdx(mf, j)]]]))]

\* (mutant) lines 133-135 without the test of intx_term
pred_with_intx(b, s, x) == [r \in 1..Len(s) |-> b[r] + s[r] + x[r]]
\* lines 133-135
pred(b, s, x) ==
    [r \in 1..Len(s) |-> b[r] + s[r] + (IF intx_term THEN x[r] ELSE 0)]

\* line 138: F.mean_squared_error(pred, y)
mean_squared_error(p, y) ==
    Frac(SumSeq([r \in 1..Len(y) |-> (p[r] - y[r]) * (p[r] - y[r])]), Len(y))

\* (mutant) line 142 with the slot count for the batch size
frac_of_slots(a) == Frac(Len(a.loc[1]), total_nobs)
\* (mutant) line 142 without the division
frac_undivided(a) == Frac(Len(a.loc), 1)
\* line 142: loc.data.shape[0] * 1.0 / self.total_nobs
frac(a) == Frac(Len(a.loc), total_nobs)

\* lines 143-149
reg0 == gaussian_kl_divergence(bias_mu, bias_lv)
reg1 == gaussian_kl_divergence(Flatten(slope_mu), Flatten(slope_lv))
reg2 == gaussian_kl_divergence(Flatten(latent_mu), Flatten(latent_lv))
reg3 == gaussian_kl_divergence(prior_latent_mu[1][1], prior_latent_lv[1][1])
reg4 == gaussian_kl_divergence(prior_slope_mu[1][1], prior_slope_lv[1][1])
Scale(p, k) == Frac(p.num * k, p.den)
\* lines 150-151
regt ==
    FAdd(FAdd(FAdd(Scale(reg0, lambda0), Scale(reg1, lambda1)),
              Scale(reg2, lambda2)),
         FAdd(Scale(reg3, lambda0), Scale(reg4, lambda0)))
\* line 154
loss(ms, a) == FAdd(ms, FMul(regt, frac(a)))

\* Where chainer v1 raises on the shapes of a call: line 91 (bs_lv +
\* is_test * lv_floor), lines 101-102 (embeddings of loc + prior), line 103
\* (reshape of is_test to (bs, 1, 1)), line 133 (bias + slop)
ShapesAgree(a) ==
    /\ Shape1(a.is_test) = Shape1(a.y)
    /\ Shape2(a.loc) = Shape2(a.val)
    /\ Len(a.is_test) = BS(a)
    /\ Len(a.y) = BS(a)
\* line 129 raises when the mask does not broadcast against vij * xij
MaskFits(a, m) == Broadcasts(NF(a), Len(m[1]))

\* ------------------------------------------------------ the inputs drawn
\* feature values in {1, 2}, feature ids below n_features, targets in {0, 1}
ValOf(bs, nf) == [r \in 1..bs |-> [i \in 1..nf |-> 1 + ((r + i) % 2)]]
LocOf(bs, nf) == [r \in 1..bs |-> [i \in 1..nf |-> (r + i) % n_features]]
YOf(bs) == [r \in 1..bs |-> r % 2]
\* is_test: 0 all training rows, 1 all test rows, 2 only the first row a
\* test row
IsTestKinds == 0..2
IsTestOf(tk, bs) ==
    [r \in 1..bs |-> CASE tk = 0 -> 0 [] tk = 1 -> 1
                       [] tk = 2 -> IF r = 1 THEN 1 ELSE 0]
\* three draws of standard-normal noise: all 0, all 1, alternating 1 and -1
NoiseKinds == 0..2
Eps(k, p) == CASE k = 0 -> 0 [] k = 1 -> 1 [] k = 2 -> IF p % 2 = 0 THEN 1 ELSE -1
\* lv_floor: none, and one that underflows exp(0.5 * .) whatever it is added to
LvFloors == {0, LvTiny}
\* the default of forward's lv_floor, which __call__ always uses
LvFloorDefault == -100

\* a call whose four arrays agree in shape
WellShaped(bs, nf, t, k, fl) ==
    [val |-> ValOf(bs, nf), loc |-> LocOf(bs, nf), y |-> YOf(bs),
     is_test |-> t, lv_floor |-> fl,
     eps_b |-> [r \in 1..bs |-> Eps(k, r)],
     eps_c |-> [r \in 1..bs |-> [i \in 1..nf |-> Eps(k, r + i)]],
     eps_v |-> [r \in 1..bs |-> [i \in 1..nf |-> [d \in 1..n_dim |->
                   Eps(k, r + i + d)]]]]
\* a call of which one array has a row or a slot too many: 1 the rows of
\* loc, 2 the slots of loc, 3 y, 4 is_test
FaultKinds == 1..4
Malformed(fk, bs, nf) ==
    LET a == WellShaped(bs, nf, IsTestOf(0, bs), 0, LvFloorDefault)
    IN  CASE fk = 1 -> [a EXCEPT !.loc = LocOf(bs + 1, nf)]
          [] fk = 2 -> [a EXCEPT !.loc = LocOf(bs, nf + 1)]
          [] fk = 3 -> [a EXCEPT !.y = YOf(bs + 1),
                                 !.eps_b = [r \in 1..bs + 1 |-> 0]]
          [] fk = 4 -> [a EXCEPT !.is_test = IsTestOf(0, bs + 1)]

\* (mutant) line 91 adding in place, into the parameter's own array
BiasLvInPlace(a) == <<bias_lv[1] + a.is_test[1] * a.lv_floor>>
\* the parameter bias_lv.b after line 91: bs_lv += ... rebinds the local
\* name (a Variable has no in-place add); the parameter keeps its value
BiasLvAfter(a) == bias_lv

\* what a forward call that returns leaves in last: its arguments, the
\* cache it found, every sample it drew and every figure it computed
Returned(a, m) ==
    LET b == bias(a)
        c == coef(a)
        s == slop(a)
        v == vi(a)
        x == intx(v, a.val, m)
        p == pred(b, s, x)
        ms == mean_squared_error(p, a.y)
    IN  [op |-> "forward", ok |-> TRUE, a |-> a, before |-> _mask,
         bias |-> b, coef |-> c, slop |-> s, vi |-> v, intx |-> x,
         pred |-> p, mse |-> ms, regt |-> regt, frac |-> frac(a),
         loss |-> loss(ms, a)]
\* the regularization figures of a call that returns
RegOf(a) ==
    [valid |-> TRUE, lam |-> <<lambda0, lambda1, lambda2>>,
     kl |-> <<reg0, reg1, reg2, reg3, reg4>>, regt |-> regt,
     B |-> BS(a), N |-> total_nobs, term |-> FMul(regt, frac(a))]

\* forward(val, loc, y, is_test, lv_floor): line 85 runs before anything
\* that can raise
Forward(a) ==
    /\ LET m == MaskAfter(_mask, BS(a), NF(a))
       IN  /\ _mask' = m
           /\ IF ShapesAgree(a) /\ MaskFits(a, m.data)
              THEN /\ last' = Returned(a, m.data)
                   /\ reg' = [cur |-> RegOf(a), prev |-> reg.cur]
              ELSE /\ last' = [op |-> "forward", ok |-> FALSE, a |-> a,
                               before |-> _mask]
                   /\ reg' = reg
    /\ bias_lv' = BiasLvAfter(a)
    /\ UNCHANGED <<instance, config, bias_mu, slope_mu, slope_lv,
                   prior_slope_mu, prior_slope_lv, latent_mu, latent_lv,
                   prior_latent_mu, prior_latent_lv>>

\* a call needs an instance, and a vocabulary to take feature ids from
Callable == instance = "ok" /\ n_features >= 1

\* forward calls with well-shaped arguments
ForwardOver(BSs, NFs, TKs, Ks, Fls) ==
    /\ Callable
    /\ \E bs \in BSs, nf \in NFs, tk \in TKs, k \in Ks, fl \in Fls :
           Forward(WellShaped(bs, nf, IsTestOf(tk, bs), k, fl))
\* forward calls with malformed arguments
MalformedOver(BSs, NFs, FKs) ==
    /\ Callable
    /\ \E bs \in BSs, nf \in NFs, fk \in FKs :
           Forward(Malformed(fk, bs, nf))
\* lines 162-163: __call__ passes no lv_floor; the batches drawn for it are
\* training rows (is_test = 0), which the default floor leaves untouched
CallOver(BSs, NFs, Ks) ==
    /\ Callable
    /\ \E bs \in BSs, nf \in NFs, k \in Ks :
           Forward(WellShaped(bs, nf, IsTestOf(0, bs), k, LvFloorDefault))

\* ------------------------------------------------- the specifications
\* Spec: one model; direct mask calls and forward calls of every shape,
\* well-formed and malformed
MainCtor == {Args(MaxFeatures, MaxDim, <<1, 2, 3>>, TRUE, 1, 0)}
Init == InitFrom(MainCtor)
forward == ForwardOver(1..MaxBS, 1..MaxNF, {2}, {2}, {LvTiny})
forward_malformed == MalformedOver(1..MaxBS, 1..MaxNF, FaultKinds)
__call__ == CallOver(1..MaxBS, 1..MaxNF, {1})
Next == mask \/ forward \/ forward_malformed \/ __call__
Spec == Init /\ [][Next]_vars

\* SpecCache: the same model under direct mask calls and well-shaped
\* forward calls only
NextCache == mask \/ forward \/ __call__
SpecCache == Init /\ [][NextCache]_vars

\* SpecLoss: models with other random initialisations, and forward calls
\* of full-width batches under every kind of is_test, noise and lv_floor
LossCtor ==
    {Args(MaxFeatures, MaxDim, <<1, 2, 3>>, ix, 1, seed) :
        ix \in BOOLEAN, seed \in {0, 1}}
InitLoss == InitFrom(LossCtor)
forward_sampled ==
    ForwardOver(1..MaxBS, {MaxNF}, IsTestKinds, NoiseKinds, LvFloors)
NextLoss == forward_sampled
SpecLoss == InitLoss /\ [][NextLoss]_vars

\* SpecReg: models constructed one after the other with other lambdas and
\* other total_nobs, valid or not, and forward calls of every batch size
RegCtor ==
    {Args(MaxFeatures, MaxDim, lam, TRUE, nobs, 0) :
        lam \in {<<0, 0, 0>>, <<1, 2, 3>>, <<1, -2, 1>>},
        nobs \in {1, BigNobs}}
    \cup {Args(nf, MaxDim, <<1, 2, 3>>, TRUE, 1, 0) : nf \in {-1, 0}}
    \cup {Args(MaxFeatures, nd, <<1, 2, 3>>, TRUE, 1, 0) : nd \in {-1, 0}}
InitReg == InitFrom(RegCtor)
Construct == ConstructFrom(RegCtor)
forward_batch == ForwardOver(1..MaxBS, {1}, {0}, {1}, {0})
NextReg == Construct \/ forward_batch
SpecReg == InitReg /\ [][NextReg]_vars

\* ------------------------------------------------------------ the claims
IsForward == last.op = "forward"
Returns == last.op = "forward" /\ last.ok

\* t has shape (bs, nf, nf) and is 1 off the diagonal of every slice, 0 on it
IsDiagonalMask(t, bs, nf) ==
    /\ Len(t) = bs
    /\ \A r \in 1..Len(t) :
        /\ Len(t[r]) = nf
        /\ \A i \in 1..Len(t[r]) :
            /\ Len(t[r][i]) = nf
            /\ \A j \in 1..Len(t[r][i]) : t[r][i][j] = (IF i = j THEN 0 ELSE 1)

\* C1: every mask(bs, nf), called directly or by forward with the shape of
\* val, returns a tensor of shape (bs, nf, nf) that is 1 everywhere but 0 on
\* the diagonal of each slice, whatever mask calls came before.
C1_MaskShapeAndDiagonal ==
    /\ last.op = "mask" => IsDiagonalMask(last.ret.data, last.bs, last.nf)
    /\ IsForward => IsDiagonalMask(_mask.data, BS(last.a), NF(last.a))

\* C2: a mask call that finds a cached tensor of the requested batch size
\* builds nothing and returns that very tensor, which stays the cache (so the
\* second of two consecutive calls with one bs returns the first one's
\* tensor); any other mask call, the first included, builds a tensor, stores
\* it as the cache and returns it, with first dimension bs.
C2_MaskCacheKeyedOnBatchSize ==
    last.op = "mask" =>
        IF ~last.before.none /\ Len(last.before.data) = last.bs
        THEN ~last.built /\ last.ret = last.before /\ _mask = last.before
        ELSE /\ last.built
             /\ ~last.ret.none
             /\ _mask = last.ret
             /\ Len(last.ret.data) = last.bs
\* a mask call answered from the cache although it asked for another nf
C2_Witness ==
    /\ last.op = "mask"
    /\ ~last.built
    /\ last.nf # Len(last.before.data[1])

\* C3: a forward call whose val, loc, y, is_test disagree in shape fails and
\* leaves the mask cache as it found it.
C3_MalformedForwardKeepsCache ==
    (IsForward /\ ~ShapesAgree(last.a)) => (~last.ok /\ _mask = last.before)

\* C4: a constructor call with n_features <= 0, n_dim <= 0 or a negative
\* lambda fails and leaves no model state behind.
C4_InvalidConfigRejected ==
    (/\ last.op = "construct"
     /\ \/ last.args.n_features <= 0
        \/ last.args.n_dim <= 0
        \/ \E k \in 1..3 : last.args.lam[k] < 0)
    => (instance = "error" /\ params = <<<<>>, <<>>, <<>>, <<>>, <<>>,
                                         <<>>, <<>>, <<>>, <<>>, <<>>>>)

\* C5: the loss of a forward call with batch size B on a model with
\* total_nobs N is mse + regt * (B / N): the regularization term, times N,
\* is regt times B; and of two calls with the same KL terms, lambdas and N,
\* the second with twice the batch size, the second's term is twice the
\* first's.
C5_RegularizationScaledByBatchOverNobs ==
    /\ Returns =>
        /\ reg.cur.valid
        /\ reg.cur.regt = last.regt /\ reg.cur.B = BS(last.a)
        /\ reg.cur.N = total_nobs
        /\ last.loss = FAdd(last.mse, reg.cur.term)
        /\ Scale(reg.cur.term, reg.cur.N) = Scale(reg.cur.regt, reg.cur.B)
    /\ (/\ reg.cur.valid /\ reg.prev.valid
        /\ reg.cur.kl = reg.prev.kl /\ reg.cur.lam = reg.prev.lam
        /\ reg.cur.N = reg.prev.N
        /\ reg.cur.B = 2 * reg.prev.B)
       => reg.cur.term = Scale(reg.prev.term, 2)
\* a call with twice the batch size of the call before it, on a model with
\* a regularization that is not zero and a data set larger than the batch
C5_Witness ==
    /\ Returns
    /\ reg.prev.valid
    /\ reg.cur.kl = reg.prev.kl /\ reg.cur.lam = reg.prev.lam
    /\ reg.cur.N = reg.prev.N /\ reg.cur.N = BigNobs
    /\ reg.cur.B = 2 * reg.prev.B
    /\ reg.cur.regt.num # 0

\* two calls with the same KL terms, lambdas and batch size, the first on a
\* model with total_nobs 1 and the second on one with total_nobs BigNobs
SameButNobs ==
    /\ reg.cur.valid /\ reg.prev.valid
    /\ reg.cur.kl = reg.prev.kl /\ reg.cur.lam = reg.prev.lam
    /\ reg.cur.B = reg.prev.B
    /\ reg.prev.N = 1 /\ reg.cur.N = BigNobs
Zero == Frac(0, 1)
\* C6 as stated: with non-negative lambdas, parameters and batch size fixed,
\* total_nobs 1000 in place of 1 strictly decreases the regularization term.
C6_BigNobsStrictlyDecreases ==
    (SameButNobs /\ \A k \in 1..3 : reg.cur.lam[k] >= 0)
        => FLess(reg.cur.term, reg.prev.term)
\* C6 as amended: total_nobs 1000 in place of 1 divides the regularization
\* term by 1000; the term strictly decreases exactly when regt > 0, stays 0
\* when regt = 0 and strictly increases when regt < 0.
C6_BigNobsDividesTerm ==
    SameButNobs =>
        /\ Scale(reg.cur.term, BigNobs) = reg.prev.term
        /\ FLess(reg.cur.term, reg.prev.term) <=> FLess(Zero, reg.cur.regt)
        /\ reg.cur.term = reg.prev.term <=> reg.cur.regt = Zero
        /\ FLess(reg.prev.term, reg.cur.term) <=> FLess(reg.cur.regt, Zero)
C6_Witness == SameButNobs /\ FLess(Zero, reg.cur.regt)

\* C7: with intx_term False the prediction is bias + slope sum, and the loss
\* is the mean squared error of that prediction plus the regularization
\* term: the sampled latent vectors enter neither.
C7_NoInteractionWithoutIntxTerm ==
    (Returns /\ ~intx_term) =>
        LET p == [r \in 1..BS(last.a) |-> last.bias[r] + last.slop[r]]
        IN  /\ last.pred = p
            /\ last.loss = FAdd(mean_squared_error(p, last.a.y),
                                FMul(regt, frac(last.a)))
\* ... while the interaction sum the call computed is not zero
C7_Witness ==
    /\ Returns /\ ~intx_term
    /\ \E r \in 1..BS(last.a) : last.intx[r] # 0

\* the arguments of the last call, with another draw of the noise
Redrawn(k) ==
    LET a == last.a
    IN  WellShaped(BS(a), NF(a), a.is_test, k, a.lv_floor)
AllTest == \A r \in 1..BS(last.a) : last.a.is_test[r] = 1
\* C8: with an lv_floor that underflows the standard deviation, every test
\* row's bias, slope coefficients and latent vectors are the posterior means
\* (own mean plus prior mean) and every training row's are the mean plus the
\* unfloored standard deviation times the noise; when all rows are test
\* rows the loss is the same under every draw of the noise.
C8_TestRowsSampleAtTheMean ==
    (Returns /\ last.a.lv_floor <= LvTiny) =>
        LET a == last.a
            sd(r, lv) == IF a.is_test[r] = 1 THEN 0 ELSE ExpHalf(lv)
        IN  /\ \A r \in 1..BS(a) :
                /\ last.bias[r] = bias_mu[1] + sd(r, bias_lv[1]) * a.eps_b[r]
                /\ \A i \in 1..NF(a) :
                    LET f == a.loc[r][i] + 1
                    IN  /\ last.coef[r][i] =
                              slope_mu[f][1] + prior_slope_mu[1][1][1]
                              + sd(r, slope_lv[f][1] + prior_slope_lv[1][1][1])
                                * a.eps_c[r][i]
                        /\ \A d \in 1..n_dim :
                              last.vi[r][i][d] =
                                latent_mu[f][d] + prior_latent_mu[1][1][d]
                                + sd(r, latent_lv[f][d]
                                        + prior_latent_lv[1][1][d])
                                  * a.eps_v[r][i][d]
            /\ AllTest =>
                \A k \in NoiseKinds :
                    Returned(Redrawn(k), _mask.data).loss = last.loss
\* an all-test batch drawn with noise that is not zero, on slots whose
\* posterior has a standard deviation that the floor alone takes to zero
C8_Witness ==
    /\ Returns /\ last.a.lv_floor <= LvTiny /\ AllTest
    /\ \E r \in 1..BS(last.a), i \in 1..NF(last.a) :
        /\ last.a.eps_c[r][i] # 0
        /\ slope_lv[last.a.loc[r][i] + 1][1] = 0

\* the sum over the ordered pairs i # j of the slots of row r
OrderedPairSum(v, val, r) ==
    LET nf == Len(val[r])
    IN  SumSeq(Flatten([i \in 1..nf |-> [j \in 1..nf |->
            IF i = j THEN 0
            ELSE SumSeq([d \in 1..Len(v[r][i]) |-> v[r][i][d] * v[r][j][d]])
                 * val[r][i] * val[r][j]]]))
UnorderedPairSum(v, val, r) ==
    LET nf == Len(val[r])
    IN  SumSeq(Flatten([i \in 1..nf |-> [j \in 1..nf |->
            IF i >= j THEN 0
            ELSE SumSeq([d \in 1..Len(v[r][i]) |-> v[r][i][d] * v[r][j][d]])
                 * val[r][i] * val[r][j]]]))
\* C9: every forward call with well-shaped arguments, whatever calls came
\* before, computes as interaction term of each row the sum over the ordered
\* slot pairs i # j of <v_i, v_j> * x_i * x_j, twice the sum over i < j.
C9_InteractionIsOrderedPairSum ==
    (IsForward /\ ShapesAgree(last.a)) =>
        /\ last.ok
        /\ \A r \in 1..BS(last.a) :
            /\ last.intx[r] = OrderedPairSum(last.vi, last.a.val, r)
            /\ last.intx[r] = 2 * UnorderedPairSum(last.vi, last.a.val, r)

\* C10: a forward call, through __call__ or not, returning or raising,
\* leaves the ten parameter tensors, n_features, n_dim, the lambdas,
\* intx_term and total_nobs as they were.
C10_ForwardChangesOnlyTheMaskCache ==
    [][last'.op = "forward" => UNCHANGED <<instance, config, params>>]_vars
\* a forward call that returned after an earlier one, the cache filled
C10_Witness == Returns /\ reg.prev.valid /\ ~_mask.none

====
